---- MODULE Spec2Model ----
(***************************************************************************)
(* Notebook toolbox: the dictionary based functions of notebook_v0.py, the *)
(* object model, the py-percent serializer and the structured serializer   *)
(* of notebook_v1.py, and the py-percent loader of notebook_v2.py.         *)
(*                                                                         *)
(* A text the program takes apart or puts together is a sequence of        *)
(* one-character strings; identifiers, keys and names are strings.  A list *)
(* is a sequence, a dict is a record (the empty dict is the empty function *)
(* <<>>).  An optional int is None, <<>>, or <<n>>.  The outcome of a call *)
(* is a record [raised, value]: raised is "" when the call returns and the *)
(* name of the exception otherwise.  result holds the last call: its name, *)
(* its arguments and its outcome.                                          *)
(***************************************************************************)
EXTENDS Integers, Sequences, FiniteSets, TLC

VARIABLES ipynb, nb, result

vars == <<ipynb, nb, result>>

\* ------------------------------------------------------------------ bounds
MaxCells == 2

MaxLines == 2

MaxOutputs == 2

\* ------------------------------------------------------- Python primitives
None == <<>>

EmptyDict == <<>>

Return(v) == [raised |-> "", value |-> v]

Raise(e) == [raised |-> e, value |-> <<>>]

\* "".join(list)
RECURSIVE join(_)
join(list) ==
  IF list = <<>> THEN <<>> ELSE Head(list) \o join(Tail(list))

\* list.pop() on a non-empty list: the list without its last element
pop(list) == SubSeq(list, 1, Len(list) - 1)

\* the marker lines the emitters write
MD_MARKER == <<"#", " ", "%", "%", " ", "[", "m", "a", "r", "k", "d", "o", "w", "n", "]", "\n">>

CODE_MARKER == <<"#", " ", "%", "%", "\n">>

PYTHON_MARKER == <<"#", " ", "%", "%", " ", "[", "p", "y", "t", "h", "o", "n", "]", "\n">>

COMMENT == <<"#", " ">>

NL == <<"\n">>

\* ------------------------------------------------- notebook_v0.to_percent
\* for elem in dic['source']: ans.append('# '); ans.append(elem)
RECURSIVE commented(_)
commented(source) ==
  IF source = <<>> THEN <<>>
  ELSE <<COMMENT, Head(source)>> \o commented(Tail(source))

\* the list ans after the loop over ipynb['cells']
RECURSIVE to_percent_ans(_)
to_percent_ans(cells) ==
  IF cells = <<>> THEN <<>>
  ELSE LET dic == Head(cells) IN
       (IF dic.cell_type = "markdown" THEN <<MD_MARKER>> \o commented(dic.source)
        ELSE IF dic.cell_type = "code" THEN <<CODE_MARKER>> \o dic.source
        ELSE <<>>)
       \o <<NL, NL>> \o to_percent_ans(Tail(cells))

to_percent(doc) ==
  LET ans == to_percent_ans(doc.cells) IN
  IF ans = <<>> THEN Raise("IndexError") ELSE Return(join(pop(ans)))

\* ----------------------------------------------- notebook_v0.clear_outputs
\* the cell with only its first output removed
clear_cell_first_output(dic) ==
  IF dic.cell_type = "code"
  THEN [dic EXCEPT !.execution_count = None,
                   !.outputs = IF @ = <<>> THEN <<>> ELSE Tail(@)]
  ELSE dic

\* the cell cleared without a look at its type
clear_cell_any_type(dic) ==
  [k \in DOMAIN dic \cup {"execution_count", "outputs"} |->
     IF k = "execution_count" THEN None ELSE IF k = "outputs" THEN <<>> ELSE dic[k]]

clear_cell(dic) ==
  IF dic.cell_type = "code"
  THEN [dic EXCEPT !.execution_count = None, !.outputs = <<>>]
  ELSE dic

\* the dictionary after the call: it is changed in place and returned
clear_outputs(doc) ==
  [doc EXCEPT !.cells = [i \in 1..Len(doc.cells) |-> clear_cell(doc.cells[i])]]

\* -------------------------------------------------- notebook_v0.get_stream
\* one of the two if statements of the loop body: the flag, then
\* dic['outputs'][0]['name'], then the append of dic['outputs'][0]['text'][0]
stream_if(dic, flag, name, output2) ==
  IF ~flag THEN Return(output2)
  ELSE IF dic.outputs = <<>> THEN Raise("IndexError")
  ELSE IF "name" \notin DOMAIN dic.outputs[1] THEN Raise("KeyError")
  ELSE IF dic.outputs[1].name # name THEN Return(output2)
  ELSE IF "text" \notin DOMAIN dic.outputs[1] THEN Raise("KeyError")
  ELSE IF dic.outputs[1].text = <<>> THEN Raise("IndexError")
  ELSE Return(Append(output2, dic.outputs[1].text[1]))

RECURSIVE get_stream_loop(_, _, _, _)
get_stream_loop(cells, stdout, stderr, output2) ==
  IF cells = <<>> THEN Return(output2)
  ELSE LET dic == Head(cells) IN
       IF dic.cell_type # "code" THEN get_stream_loop(Tail(cells), stdout, stderr, output2)
       ELSE LET first == stream_if(dic, stdout, "stdout", output2) IN
            IF first.raised # "" THEN first
            ELSE LET second == stream_if(dic, stderr, "stderr", first.value) IN
                 IF second.raised # "" THEN second
                 ELSE get_stream_loop(Tail(cells), stdout, stderr, second.value)

get_stream(doc, stdout, stderr) ==
  LET output2 == get_stream_loop(doc.cells, stdout, stderr, <<>>) IN
  IF output2.raised # "" THEN output2 ELSE Return(join(output2.value))

\* ---------------------------------------------- notebook_v0.get_exceptions
\* eval of "ename(repr(evalue))": an exception of that type with that message
exception(ename, evalue) == [type |-> ename, args |-> <<evalue>>]

RECURSIVE get_exceptions_loop(_, _)
get_exceptions_loop(cells, excep) ==
  IF cells = <<>> THEN Return(excep)
  ELSE LET dic == Head(cells) IN
       IF dic.cell_type # "code" THEN get_exceptions_loop(Tail(cells), excep)
       ELSE IF dic.outputs = <<>> THEN Raise("IndexError")
       ELSE IF dic.outputs[1].output_type = "error"
       THEN get_exceptions_loop(Tail(cells),
              Append(excep, exception(dic.outputs[1].ename, dic.outputs[1].evalue)))
       ELSE get_exceptions_loop(Tail(cells), excep)

get_exceptions(doc) == get_exceptions_loop(doc.cells, <<>>)

\* ------------------------------------------------ notebook_v0.to_starboard
\* a variant that ends every cell with an empty line of its own
RECURSIVE to_starboard_list_blank_line(_, _)
to_starboard_list_blank_line(cells, html) ==
  IF cells = <<>> THEN <<>>
  ELSE LET dic == Head(cells) IN
       (IF dic.cell_type = "markdown" THEN <<MD_MARKER>> \o dic.source
        ELSE <<PYTHON_MARKER>> \o dic.source)
       \o <<NL \o NL>> \o to_starboard_list_blank_line(Tail(cells), html)

\* the list built by the loop of either branch; the html branch writes the
\* python marker for every cell that is not markdown
RECURSIVE to_starboard_list(_, _)
to_starboard_list(cells, html) ==
  IF cells = <<>> THEN <<>>
  ELSE LET dic == Head(cells) IN
       (IF dic.cell_type = "markdown" THEN <<MD_MARKER>> \o dic.source
        ELSE IF html \/ dic.cell_type = "code" THEN <<PYTHON_MARKER>> \o dic.source
        ELSE <<>>)
       \o <<NL>> \o to_starboard_list(Tail(cells), html)

\* the HTML document around the code: the fixed template with the code in it
starboard_html(code) == [template |-> "Starboard Notebook", initialNotebookContent |-> code]

to_starboard(doc, html) ==
  LET list == to_starboard_list(doc.cells, html) IN
  IF list = <<>> THEN Raise("IndexError")
  ELSE IF html THEN Return(starboard_html(join(pop(list))))
  ELSE Return(join(pop(list)))

\* ------------------------------------------- notebook_v1: the object model
Digits == <<"0", "1", "2", "3", "4", "5", "6", "7", "8", "9">>

\* str(n) as an f-string renders an int: decimal digits, '-' when negative
RECURSIVE str_nat(_)
str_nat(n) ==
  IF n < 10 THEN <<Digits[n + 1]>> ELSE str_nat(n \div 10) \o <<Digits[(n % 10) + 1]>>

str_int(n) == IF n < 0 THEN <<"-">> \o str_nat(-n) ELSE str_nat(n)

\* f"{ipynb['nbformat']}.{ipynb['nbformat_minor']}"
format_version(doc) == str_int(doc.nbformat) \o <<".">> \o str_int(doc.nbformat_minor)

CodeCell_v1(dic) ==
  [class |-> "CodeCell", id |-> dic.id, cell_type |-> dic.cell_type,
   execution_count |-> dic.execution_count, source |-> dic.source]

MarkdownCell_v1(dic) ==
  [class |-> "MarkdownCell", cell_type |-> dic.cell_type, id |-> dic.id, source |-> dic.source]

\* the loop of Notebook.__init__: cells of another type are dropped
RECURSIVE Notebook_cells(_)
Notebook_cells(dics) ==
  IF dics = <<>> THEN <<>>
  ELSE LET dic == Head(dics) IN
       (IF dic.cell_type = "code" THEN <<CodeCell_v1(dic)>>
        ELSE IF dic.cell_type = "markdown" THEN <<MarkdownCell_v1(dic)>>
        ELSE <<>>)
       \o Notebook_cells(Tail(dics))

Notebook(doc) == [version |-> format_version(doc), cells |-> Notebook_cells(doc.cells)]

\* ------------------------------ notebook_v1.PyPercentSerializer.to_py_percent
RECURSIVE to_py_percent_ans(_)
to_py_percent_ans(cells) ==
  IF cells = <<>> THEN <<>>
  ELSE LET cell == Head(cells) IN
       (IF cell.class = "MarkdownCell" THEN <<MD_MARKER>> \o commented(cell.source)
        ELSE IF cell.class = "CodeCell" THEN <<CODE_MARKER>> \o cell.source
        ELSE <<>>)
       \o <<NL \o NL>> \o to_py_percent_ans(Tail(cells))

\* the text with the separator after the last cell left in
to_py_percent_keep_last(notebook) ==
  Return(join(to_py_percent_ans(notebook.cells)))

to_py_percent(notebook) ==
  LET ans == to_py_percent_ans(notebook.cells) IN
  IF ans = <<>> THEN Raise("IndexError") ELSE Return(join(pop(ans)))

\* ------------------------------------------ notebook_v1.Serializer.serialize
\* str.split(sep) for a one-character separator
RECURSIVE split(_, _)
split(s, sep) ==
  IF \A i \in 1..Len(s) : s[i] # sep THEN <<s>>
  ELSE LET k == CHOOSE i \in 1..Len(s) : s[i] = sep /\ \A j \in 1..(i - 1) : s[j] # sep
       IN <<SubSeq(s, 1, k - 1)>> \o split(SubSeq(s, k + 1, Len(s)), sep)

DigitValue(c) == CHOOSE d \in 0..9 : Digits[d + 1] = c

\* int(s) for s an optional '-' and decimal digits
RECURSIVE int_nat(_)
int_nat(s) ==
  IF s = <<>> THEN 0 ELSE 10 * int_nat(SubSeq(s, 1, Len(s) - 1)) + DigitValue(s[Len(s)])

int(s) == IF s[1] = "-" THEN 0 - int_nat(Tail(s)) ELSE int_nat(s)

serialize_cell(cell) ==
  IF cell.class = "MarkdownCell"
  THEN [cell_type |-> cell.cell_type, id |-> cell.id, medatada |-> EmptyDict,
        source |-> cell.source]
  ELSE [cell_type |-> cell.cell_type, execution_count |-> cell.execution_count,
        id |-> cell.id, medatada |-> EmptyDict, outputs |-> <<>>, source |-> cell.source]

\* the minor version read from the last character of the version
serialize_last_digit(notebook) ==
  [cells |-> [i \in 1..Len(notebook.cells) |-> serialize_cell(notebook.cells[i])],
   metadata |-> EmptyDict,
   nbformat |-> int(split(notebook.version, ".")[1]),
   nbformat_minor |-> int(<<notebook.version[Len(notebook.version)]>>)]

serialize(notebook) ==
  [cells |-> [i \in 1..Len(notebook.cells) |-> serialize_cell(notebook.cells[i])],
   metadata |-> EmptyDict,
   nbformat |-> int(split(notebook.version, ".")[1]),
   nbformat_minor |-> int(split(notebook.version, ".")[2])]

\* ------------------------------------------- notebook_v2: the object model
CodeCell(id, source, execution_count) ==
  [class |-> "CodeCell", id |-> id, source |-> source, execution_count |-> execution_count]

\* MarkdownCell subclasses CodeCell: super().__init__(id, source, None)
MarkdownCell(id, source) ==
  [class |-> "MarkdownCell", id |-> id, source |-> source, execution_count |-> None]

Notebook_v2(version, cells) == [version |-> version, cells |-> cells]

\* ------------------------------------------------ notebook_v2: transforms
\* the loop of NotebookLoader.load: cells of another type are dropped
RECURSIVE NotebookLoader_cells(_)
NotebookLoader_cells(dics) ==
  IF dics = <<>> THEN <<>>
  ELSE LET dic == Head(dics) IN
       (IF dic.cell_type = "code"
        THEN <<CodeCell(dic.id, dic.source, dic.execution_count)>>
        ELSE IF dic.cell_type = "markdown" THEN <<MarkdownCell(dic.id, dic.source)>>
        ELSE <<>>)
       \o NotebookLoader_cells(Tail(dics))

NotebookLoader_load(doc) ==
  Notebook_v2(format_version(doc), NotebookLoader_cells(doc.cells))

\* cell.__class__ = MarkdownCell on the cell object itself: its other
\* attributes stay as they are
markdownize_cell(cell) ==
  IF cell.class \in {"CodeCell", "MarkdownCell"}
  THEN [cell EXCEPT !.class = "MarkdownCell"]
  ELSE cell

\* the cells after markdownize; Markdownizer.cells is the list of the
\* notebook it was made from, so these are the cells of both
markdownize(notebook) ==
  [version |-> notebook.version,
   cells |-> [i \in 1..Len(notebook.cells) |-> markdownize_cell(notebook.cells[i])]]

RECURSIVE remove_markdown_cells_loop(_)
remove_markdown_cells_loop(cells) ==
  IF cells = <<>> THEN <<>>
  ELSE (IF Head(cells).class # "MarkdownCell" THEN <<Head(cells)>> ELSE <<>>)
       \o remove_markdown_cells_loop(Tail(cells))

\* MarkdownLesser gets a new list; the notebook keeps its own
remove_markdown_cells(notebook) ==
  [version |-> notebook.version, cells |-> remove_markdown_cells_loop(notebook.cells)]

\* -------------------------------------------- notebook_v2.PyPercentLoader
DEFAULT_VERSION == <<"4", ".", "5">>

MARKDOWN == <<"m", "a", "r", "k", "d", "o", "w", "n">>

\* f.readlines(): the lines of the text, each with its line ending
RECURSIVE readlines(_)
readlines(text) ==
  IF text = <<>> THEN <<>>
  ELSE IF \A i \in 1..Len(text) : text[i] # "\n" THEN <<text>>
  ELSE LET k == CHOOSE i \in 1..Len(text) : text[i] = "\n" /\ \A j \in 1..(i - 1) : text[j] # "\n"
       IN <<SubSeq(text, 1, k)>> \o readlines(SubSeq(text, k + 1, Len(text)))

\* sub in line
contains(line, sub) ==
  \E i \in 1..(Len(line) - Len(sub) + 1) : SubSeq(line, i, i + Len(sub) - 1) = sub

\* line[-1:] == "\n"
ends_with_newline(line) == Len(line) > 0 /\ line[Len(line)] = "\n"

\* the inner loop of the markdown branch, from lines[counter] on
RECURSIVE markdown_block(_, _, _)
markdown_block(lines, counter, markdown_cell) ==
  IF ~(counter < Len(lines) - 1) THEN [counter |-> counter, cell |-> markdown_cell]
  ELSE LET line == lines[counter + 1] IN
       IF line = NL THEN [counter |-> counter + 1, cell |-> markdown_cell]
       ELSE IF ends_with_newline(line)
       THEN markdown_block(lines, counter + 1,
                           Append(markdown_cell, SubSeq(line, 3, Len(line) - 1)))
       ELSE markdown_block(lines, counter + 1,
                           Append(markdown_cell, SubSeq(line, 3, Len(line))))

\* the inner loop of the code branch, from lines[counter] on
RECURSIVE code_block(_, _, _)
code_block(lines, counter, code_cell) ==
  IF ~(counter < Len(lines) - 1) THEN [counter |-> counter, cell |-> code_cell]
  ELSE LET line == lines[counter + 1] IN
       IF line = NL THEN [counter |-> counter + 1, cell |-> code_cell]
       ELSE IF ends_with_newline(line)
       THEN code_block(lines, counter + 1, Append(code_cell, SubSeq(line, 1, Len(line) - 1)))
       ELSE code_block(lines, counter + 1, Append(code_cell, line))

\* the outer loop: while counter < l - 1
RECURSIVE load_cells(_, _, _, _)
load_cells(lines, counter, id, cells) ==
  IF ~(counter < Len(lines) - 1) THEN cells
  ELSE IF contains(lines[counter + 1], MARKDOWN)
  THEN LET b == markdown_block(lines, counter + 1, <<>>)
       IN load_cells(lines, b.counter, id + 1, Append(cells, MarkdownCell(id, b.cell)))
  ELSE LET b == code_block(lines, counter + 1, <<>>)
       IN load_cells(lines, b.counter, id + 1, Append(cells, CodeCell(id, b.cell, <<1>>)))

\* the value of counter when the outer loop ends: the lines read
RECURSIVE load_counter(_, _)
load_counter(lines, counter) ==
  IF ~(counter < Len(lines) - 1) THEN counter
  ELSE IF contains(lines[counter + 1], MARKDOWN)
  THEN load_counter(lines, markdown_block(lines, counter + 1, <<>>).counter)
  ELSE load_counter(lines, code_block(lines, counter + 1, <<>>).counter)

\* PyPercentLoader(filename).load() on a file holding the given text
load(text) == Return(Notebook_v2(DEFAULT_VERSION, load_cells(readlines(text), 0, 0, <<>>)))

\* ----------------------------------------------------------------- inputs
\* a source of k lines of one text, each newline-terminated except possibly
\* the last
Source(text, k, terminated) ==
  [i \in 1..k |-> IF i < k \/ terminated THEN text \o NL ELSE text]

MdText == <<"H", "i">>

CodeText == <<"x", "=", "1">>

HexIds == <<"a9541506", "b777420a", "a23ab5ac", "c0ffee00", "deadbeef">>

SeqIds == <<"0", "1", "2", "3", "4">>

IdSchemes == {HexIds, SeqIds}

MarkdownDict(id, source) ==
  [cell_type |-> "markdown", id |-> id, metadata |-> EmptyDict, source |-> source]

CodeDict(id, source, count, outputs) ==
  [cell_type |-> "code", execution_count |-> count, id |-> id,
   metadata |-> EmptyDict, outputs |-> outputs, source |-> source]

\* the cells of the conversion inputs, by type, number of lines and whether
\* the last line is terminated: no outputs, every code cell run once
TextShapes ==
  {<<t, k, e>> \in {"markdown", "code"} \X (0..MaxLines) \X BOOLEAN : k > 0 \/ e}

TextCell(id, shape) ==
  IF shape[1] = "markdown"
  THEN MarkdownDict(id, Source(MdText, shape[2], shape[3]))
  ELSE CodeDict(id, Source(CodeText, shape[2], shape[3]), <<1>>, <<>>)

Headers ==
  {[metadata |-> EmptyDict, nbformat |-> 4, nbformat_minor |-> 5],
   [metadata |-> [clone |-> TRUE], nbformat |-> 4, nbformat_minor |-> 10]}

Ipynb(h, cells) ==
  [cells |-> cells, metadata |-> h.metadata,
   nbformat |-> h.nbformat, nbformat_minor |-> h.nbformat_minor]

\* the outputs of the extraction inputs
StdoutStream ==
  [name |-> "stdout", output_type |-> "stream",
   text |-> << <<"a", "\n">>, <<"b", "\n">> >>]

StderrStream ==
  [name |-> "stderr", output_type |-> "stream", text |-> << <<"e", "\n">> >>]

ErrorOutput ==
  [ename |-> "TypeError", evalue |-> "unsupported operand", output_type |-> "error",
   traceback |-> <<>>]

Outputs == {StdoutStream, StderrStream, ErrorOutput}

\* the cells of the extraction inputs: a markdown cell, <<>>, or a code cell
\* with a sequence of outputs; one source per type, every code cell run once
OutputShapes == {<<>>} \cup UNION {[1..m -> Outputs] \X {"code"} : m \in 0..MaxOutputs}

OutputCell(id, shape) ==
  IF shape = <<>> THEN MarkdownDict(id, <<MdText \o NL>>)
  ELSE CodeDict(id, <<CodeText>>, <<1>>, shape[1])

OutputHeader == [metadata |-> [clone |-> TRUE], nbformat |-> 4, nbformat_minor |-> 5]

NoResult == [op |-> "", arg |-> <<>>, raised |-> "", value |-> <<>>]

Called(op, arg, outcome) ==
  [op |-> op, arg |-> arg, raised |-> outcome.raised, value |-> outcome.value]

\* ---------------------------------------------------------------- actions
Init ==
  /\ \E h \in Headers, ids \in IdSchemes, n \in 0..MaxCells :
       \E shapes \in [1..n -> TextShapes] :
         ipynb = Ipynb(h, [i \in 1..n |-> TextCell(ids[i], shapes[i])])
  /\ nb = <<>>
  /\ result = NoResult

ToPercent ==
  /\ result' = Called("to_percent", <<>>, to_percent(ipynb))
  /\ UNCHANGED <<ipynb, nb>>

ToStarboard ==
  /\ \E html \in BOOLEAN :
       result' = Called("to_starboard", <<html>>, to_starboard(ipynb, html))
  /\ UNCHANGED <<ipynb, nb>>

\* nb = Notebook(ipynb)
NotebookInit ==
  /\ nb = <<>>
  /\ nb' = <<Notebook(ipynb)>>
  /\ UNCHANGED <<ipynb, result>>

\* PyPercentSerializer(nb).to_py_percent()
ToPyPercent ==
  /\ nb # <<>>
  /\ result' = Called("to_py_percent", <<>>, to_py_percent(nb[1]))
  /\ UNCHANGED <<ipynb, nb>>

\* Serializer(nb).serialize()
Serialize ==
  /\ nb # <<>>
  /\ result' = Called("serialize", <<>>, Return(serialize(nb[1])))
  /\ UNCHANGED <<ipynb, nb>>

\* Notebook(d) for the dictionary d that serialize returned
Reload ==
  /\ result.op = "serialize"
  /\ result' = Called("Notebook", <<>>, Return(Notebook(result.value)))
  /\ UNCHANGED <<ipynb, nb>>

\* PyPercentLoader(f).load() for a file f holding the text an emitter returned
Load ==
  /\ result.op \in {"to_percent", "to_py_percent", "to_starboard"}
  /\ result.raised = ""
  /\ result.arg # <<TRUE>>
  /\ result' = Called("load", <<result.op, result.value>>, load(result.value))
  /\ UNCHANGED <<ipynb, nb>>

Next ==
  \/ ToPercent
  \/ ToStarboard
  \/ NotebookInit
  \/ ToPyPercent
  \/ Serialize
  \/ Reload
  \/ Load

Spec == Init /\ [][Next]_vars

\* ------------------------------------------- the extractions of notebook_v0
InitOutputs ==
  /\ \E n \in 0..MaxCells :
       \E shapes \in [1..n -> OutputShapes] :
         ipynb = Ipynb(OutputHeader, [i \in 1..n |-> OutputCell(HexIds[i], shapes[i])])
  /\ nb = <<>>
  /\ result = NoResult

\* clear_outputs(ipynb): arg keeps the dictionary as it was when passed
ClearOutputs ==
  /\ ipynb' = clear_outputs(ipynb)
  /\ result' = Called("clear_outputs", ipynb, Return(ipynb'))
  /\ UNCHANGED nb

GetStream ==
  /\ \E stdout \in BOOLEAN, stderr \in BOOLEAN :
       result' = Called("get_stream", <<stdout, stderr>>, get_stream(ipynb, stdout, stderr))
  /\ UNCHANGED <<ipynb, nb>>

GetExceptions ==
  /\ result' = Called("get_exceptions", <<>>, get_exceptions(ipynb))
  /\ UNCHANGED <<ipynb, nb>>

NextOutputs ==
  \/ ClearOutputs
  \/ GetStream
  \/ GetExceptions

SpecOutputs == InitOutputs /\ [][NextOutputs]_vars

\* -------------------------------------------------- notebook_v0.get_images
\* np.array(PIL.Image.open(io.BytesIO(base64.b64decode(payload)))): the pixel
\* array of the image the payload encodes
png_array(payload) == [array_of |-> payload]

RECURSIVE get_images_loop(_, _)
get_images_loop(cells, answer) ==
  IF cells = <<>> THEN Return(answer)
  ELSE LET dic == Head(cells) IN
       IF dic.cell_type # "code" \/ Len(dic.outputs) = 0
       THEN get_images_loop(Tail(cells), answer)
       ELSE IF "data" \notin DOMAIN dic.outputs[1] THEN Raise("KeyError")
       ELSE IF "image/png" \in DOMAIN dic.outputs[1].data
       THEN get_images_loop(Tail(cells),
              Append(answer, png_array(dic.outputs[1].data["image/png"])))
       ELSE get_images_loop(Tail(cells), answer)

get_images(doc) == get_images_loop(doc.cells, <<>>)

\* the outputs of the image inputs: a stream, a picture, a display without one
PngDisplay ==
  [data |-> ("image/png" :> "iVBORw0KGgo=" @@ "text/plain" :> "<Figure>"),
   metadata |-> EmptyDict, output_type |-> "display_data"]

TextDisplay ==
  [data |-> ("text/plain" :> "<Figure>"), metadata |-> EmptyDict,
   output_type |-> "display_data"]

ImageOutputs == {StdoutStream, PngDisplay, TextDisplay}

ImageShapes == {<<>>} \cup UNION {[1..m -> ImageOutputs] \X {"code"} : m \in 0..MaxOutputs}

InitImages ==
  /\ \E n \in 0..MaxCells :
       \E shapes \in [1..n -> ImageShapes] :
         ipynb = Ipynb(OutputHeader, [i \in 1..n |-> OutputCell(HexIds[i], shapes[i])])
  /\ nb = <<>>
  /\ result = NoResult

GetImages ==
  /\ result' = Called("get_images", <<>>, get_images(ipynb))
  /\ UNCHANGED <<ipynb, nb>>

NextImages ==
  \/ GetImages
  \/ ClearOutputs

SpecImages == InitImages /\ [][NextImages]_vars

\* ------------------------------------------- PyPercentLoader on any file
MaxFileLines == 5

\* the lines a py-percent file is made of
FileLines == {MD_MARKER, CODE_MARKER, COMMENT \o MdText \o NL, CodeText \o NL, NL}

\* the text of a file: lines, the last one with or without its line ending
FileText(lines, terminated) ==
  IF terminated \/ lines = <<>> THEN join(lines)
  ELSE pop(join(lines))

\* a file on disk, before it is loaded
InitFile ==
  /\ \E n \in 0..MaxFileLines, terminated \in BOOLEAN :
       \E lines \in [1..n -> FileLines] :
         /\ terminated \/ (n > 0 /\ lines[n] # NL)
         /\ result = Called("file", <<>>, Return(FileText(lines, terminated)))
  /\ ipynb = <<>>
  /\ nb = <<>>

\* PyPercentLoader(f).load() for the file f
LoadFile ==
  /\ result.op = "file"
  /\ result' = Called("load", <<"file", result.value>>, load(result.value))
  /\ UNCHANGED <<ipynb, nb>>

NextFile ==
  \/ LoadFile

SpecFile == InitFile /\ [][NextFile]_vars

\* ------------------------------------------- emitters on marker-like content
\* a cell magic, and the same commented out: source lines a notebook may hold
MagicText == <<"%", "%", "t">>

CommentedMagic == COMMENT \o MagicText

MagicShapes ==
  {"markdown", "code"} \X {CodeText, MagicText, CommentedMagic} \X (1..MaxLines)

MagicCell(id, shape) ==
  IF shape[1] = "markdown"
  THEN MarkdownDict(id, Source(shape[2], shape[3], TRUE))
  ELSE CodeDict(id, Source(shape[2], shape[3], TRUE), <<1>>, <<>>)

InitMagic ==
  /\ \E n \in 1..MaxCells :
       \E shapes \in [1..n -> MagicShapes] :
         ipynb = Ipynb(OutputHeader, [i \in 1..n |-> MagicCell(SeqIds[i], shapes[i])])
  /\ nb = <<>>
  /\ result = NoResult

NextMagic ==
  \/ ToPercent
  \/ ToStarboard
  \/ NotebookInit
  \/ ToPyPercent

SpecMagic == InitMagic /\ [][NextMagic]_vars

\* ------------------------------------------- the transforms of notebook_v2
InitTransform ==
  /\ \E h \in Headers, ids \in IdSchemes, n \in 0..MaxCells :
       \E shapes \in [1..n -> TextShapes] :
         ipynb = Ipynb(h, [i \in 1..n |-> TextCell(ids[i], shapes[i])])
  /\ nb = <<>>
  /\ result = NoResult

\* nb = NotebookLoader(f).load() for a file f holding ipynb
NotebookLoad ==
  /\ nb = <<>>
  /\ nb' = <<NotebookLoader_load(ipynb)>>
  /\ UNCHANGED <<ipynb, result>>

\* Markdownizer(nb).markdownize(): the cells it changes are the cells of nb
Markdownize ==
  /\ nb # <<>>
  /\ nb' = <<markdownize(nb[1])>>
  /\ result' = Called("markdownize", nb[1], Return(markdownize(nb[1])))
  /\ UNCHANGED ipynb

\* MarkdownLesser(nb).remove_markdown_cells()
RemoveMarkdownCells ==
  /\ nb # <<>>
  /\ result' = Called("remove_markdown_cells", nb[1], Return(remove_markdown_cells(nb[1])))
  /\ UNCHANGED <<ipynb, nb>>

NextTransform ==
  \/ NotebookLoad
  \/ Markdownize
  \/ RemoveMarkdownCells

SpecTransform == InitTransform /\ [][NextTransform]_vars

\* =================================================================== claims
\* concatenation of the texts f[1], ..., f[n]
RECURSIVE ConcatTo(_, _)
ConcatTo(f, n) == IF n = 0 THEN <<>> ELSE ConcatTo(f, n - 1) \o f[n]

IsSuffix(s, t) == Len(s) <= Len(t) /\ SubSeq(t, Len(t) - Len(s) + 1, Len(t)) = s

\* what the percent format asks of one cell: its marker line, then its source
\* lines, each markdown line behind "# "
PercentBlock(cell) ==
  IF cell.cell_type = "markdown"
  THEN MD_MARKER \o ConcatTo([i \in 1..Len(cell.source) |-> <<"#", " ">> \o cell.source[i]],
                             Len(cell.source))
  ELSE CODE_MARKER \o ConcatTo(cell.source, Len(cell.source))

\* the blocks in order, a separator after each but the last
PercentText(cells) ==
  ConcatTo([i \in 1..Len(cells) |->
              PercentBlock(cells[i]) \o (IF i < Len(cells) THEN <<"\n", "\n">> ELSE <<>>)],
           Len(cells))

\* the notebook [Markdown(['Hi\n']), Code(['x=1'])] of the scenario and its text
IsHiX(cells) ==
  /\ Len(cells) = 2
  /\ cells[1].cell_type = "markdown" /\ cells[1].source = << <<"H", "i", "\n">> >>
  /\ cells[2].cell_type = "code" /\ cells[2].source = << <<"x", "=", "1">> >>

HiXText ==
  <<"#", " ", "%", "%", " ", "[", "m", "a", "r", "k", "d", "o", "w", "n", "]", "\n",
    "#", " ", "H", "i", "\n", "\n", "\n", "#", " ", "%", "%", "\n", "x", "=", "1">>

\* C1: to_py_percent of a notebook with at least one cell returns the blocks
\* of its cells in order (marker line, source lines, markdown lines behind
\* "# "), one separator between consecutive cells and none after the last, so
\* the text ends with the last source line of the last cell; the notebook
\* [Markdown(['Hi\n']), Code(['x=1'])] gives '# %% [markdown]\n# Hi\n\n\n# %%\nx=1'.
C1_PercentEmit ==
  (result.op = "to_py_percent" /\ Len(nb[1].cells) >= 1) =>
    LET cells == nb[1].cells
        last == cells[Len(cells)]
    IN /\ result.raised = ""
       /\ result.value = PercentText(cells)
       /\ last.source # <<>> => IsSuffix(last.source[Len(last.source)], result.value)
       /\ IsHiX(cells) => result.value = HiXText

C1_Witness ==
  /\ result.op = "to_py_percent"
  /\ IsHiX(nb[1].cells)
  /\ result.value = HiXText

\* C2: both percent emitters return the empty string, and do not raise, for
\* the notebook of version 4.5 without cells.
C2_EmptyNotebook ==
  (/\ result.op \in {"to_percent", "to_py_percent"}
   /\ ipynb.cells = <<>>
   /\ format_version(ipynb) = <<"4", ".", "5">>) =>
    (result.raised = "" /\ result.value = <<>>)

\* a line and the line as parsed, which may have lost its line ending
SameLine(line, parsed) == parsed = line \/ parsed \o <<"\n">> = line

\* C3: load of the text to_starboard returns for a notebook of markdown and
\* code cells with one source line each and sequential identifiers gives a
\* notebook with as many cells, of the same types in the same order, each
\* with the same source line.
C3_ParseInvertsEmit ==
  (/\ result.op = "load"
   /\ result.arg[1] = "to_starboard"
   /\ \A i \in 1..Len(ipynb.cells) :
        Len(ipynb.cells[i].source) = 1 /\ ipynb.cells[i].id = SeqIds[i]) =>
    /\ result.raised = ""
    /\ Len(result.value.cells) = Len(ipynb.cells)
    /\ \A i \in 1..Len(ipynb.cells) :
         /\ (result.value.cells[i].class = "MarkdownCell")
              <=> (ipynb.cells[i].cell_type = "markdown")
         /\ Len(result.value.cells[i].source) = 1
         /\ SameLine(ipynb.cells[i].source[1], result.value.cells[i].source[1])

\* C4: the notebook built from the dictionary that serialize returns for a
\* notebook N has the identifiers, the types, the source lines and the version
\* of N.
C4_StructuredRoundTrip ==
  result.op = "Notebook" =>
    LET N == nb[1]
        M == result.value
    IN /\ result.raised = ""
       /\ M.version = N.version
       /\ Len(M.cells) = Len(N.cells)
       /\ \A i \in 1..Len(N.cells) :
            /\ M.cells[i].id = N.cells[i].id
            /\ M.cells[i].class = N.cells[i].class
            /\ M.cells[i].cell_type = N.cells[i].cell_type
            /\ M.cells[i].source = N.cells[i].source

C4_Witness ==
  /\ result.op = "Notebook"
  /\ result.value.version = <<"4", ".", "1", "0">>
  /\ Len(result.value.cells) = 2
  /\ result.value.cells[1].class = "CodeCell"
  /\ result.value.cells[2].class = "MarkdownCell"
  /\ Len(result.value.cells[2].source) = 2
  /\ result.value.cells[1].id = "a9541506"

\* C5: the dictionary serialize returns for the notebook loaded from a
\* dictionary D has the global metadata of D.
C5_MetadataRoundTrip ==
  result.op = "serialize" => result.value.metadata = ipynb.metadata

\* C6: clear_outputs applied a second time leaves the notebook as the first
\* application left it.
C6_ClearIdempotent ==
  [][(result.op = "clear_outputs" /\ result'.op = "clear_outputs") => ipynb' = ipynb]_vars

\* a second application: the argument is the notebook the first one left
C6_Witness ==
  /\ result.op = "clear_outputs"
  /\ result.arg = ipynb
  /\ Len(ipynb.cells) = 2
  /\ \E i \in 1..Len(ipynb.cells) : ipynb.cells[i].cell_type = "code"

\* C7: after clear_outputs every code cell has no outputs and the execution
\* count None, and the rest is as it was: the number and order of the cells,
\* each cell's keys, type, id, source and metadata, every markdown cell, the
\* global metadata and the format version.
C7_ClearFrame ==
  result.op = "clear_outputs" =>
    LET before == result.arg
        after == ipynb
    IN /\ result.raised = ""
       /\ after.metadata = before.metadata
       /\ after.nbformat = before.nbformat
       /\ after.nbformat_minor = before.nbformat_minor
       /\ Len(after.cells) = Len(before.cells)
       /\ \A i \in 1..Len(before.cells) :
            LET b == before.cells[i]
                a == after.cells[i]
            IN IF b.cell_type = "code"
               THEN /\ a.outputs = <<>>
                    /\ a.execution_count = None
                    /\ DOMAIN a = DOMAIN b
                    /\ \A k \in DOMAIN b \ {"outputs", "execution_count"} : a[k] = b[k]
               ELSE a = b

C7_Witness ==
  /\ result.op = "clear_outputs"
  /\ result.arg.metadata # EmptyDict
  /\ \E i \in 1..Len(result.arg.cells) : result.arg.cells[i].cell_type = "markdown"
  /\ \E i \in 1..Len(result.arg.cells) :
       /\ result.arg.cells[i].cell_type = "code"
       /\ Len(result.arg.cells[i].outputs) = 2
       /\ result.arg.cells[i].execution_count = <<1>>
       /\ ipynb.cells[i].outputs = <<>>

\* the notebook without its code cells that have no outputs
WithoutEmpty(doc) ==
  [doc EXCEPT !.cells = SelectSeq(doc.cells,
     LAMBDA c : ~(c.cell_type = "code" /\ c.outputs = <<>>))]

\* C8: get_stream returns, whatever the flags, for a notebook with a code
\* cell without outputs, and that cell adds nothing to the text.
C8_StreamEmptyOutputs ==
  (/\ result.op = "get_stream"
   /\ \E i \in 1..Len(ipynb.cells) :
        ipynb.cells[i].cell_type = "code" /\ ipynb.cells[i].outputs = <<>>) =>
    /\ result.raised = ""
    /\ result.value = get_stream(WithoutEmpty(ipynb), result.arg[1], result.arg[2]).value

\* the whole text of the selected stream outputs of one cell, in output order
StreamTextOfCell(cell, stdout, stderr) ==
  IF cell.cell_type # "code" THEN <<>>
  ELSE ConcatTo([j \in 1..Len(cell.outputs) |->
                   LET o == cell.outputs[j] IN
                   IF /\ o.output_type = "stream"
                      /\ \/ (stdout /\ o.name = "stdout")
                         \/ (stderr /\ o.name = "stderr")
                   THEN ConcatTo(o.text, Len(o.text))
                   ELSE <<>>],
                Len(cell.outputs))

StreamText(doc, stdout, stderr) ==
  ConcatTo([i \in 1..Len(doc.cells) |-> StreamTextOfCell(doc.cells[i], stdout, stderr)],
           Len(doc.cells))

\* C9: the text get_stream returns is, in cell order and then output order,
\* the whole text of every stream output whose name is selected.
C9_StreamAllOutputs ==
  (result.op = "get_stream" /\ result.raised = "") =>
    result.value = StreamText(ipynb, result.arg[1], result.arg[2])

\* one error value for every error output of one cell, in output order
ErrorsOfCell(cell) ==
  IF cell.cell_type # "code" THEN <<>>
  ELSE LET errors == SelectSeq(cell.outputs, LAMBDA o : o.output_type = "error")
       IN [j \in 1..Len(errors) |-> [type |-> errors[j].ename, args |-> <<errors[j].evalue>>]]

ErrorsOf(doc) ==
  ConcatTo([i \in 1..Len(doc.cells) |-> ErrorsOfCell(doc.cells[i])], Len(doc.cells))

\* C10: get_exceptions returns, in cell order, one error for every output of
\* type error, wherever the output stands in its cell.
C10_ExceptionsAllOutputs ==
  (result.op = "get_exceptions" /\ result.raised = "") =>
    result.value = ErrorsOf(ipynb)

\* the pictures of one cell: one entry when one of its outputs is a display
\* with an 'image/png' entry
ImagesOfCell(cell) ==
  IF cell.cell_type # "code" THEN <<>>
  ELSE LET pngs == SelectSeq(cell.outputs,
                     LAMBDA o : /\ o.output_type = "display_data"
                                /\ "image/png" \in DOMAIN o.data)
       IN IF pngs = <<>> THEN <<>> ELSE <<[array_of |-> pngs[1].data["image/png"]]>>

ImagesOf(doc) ==
  ConcatTo([i \in 1..Len(doc.cells) |-> ImagesOfCell(doc.cells[i])], Len(doc.cells))

\* C11: get_images returns for every notebook, with one entry, in cell order,
\* for every code cell that has a display output with an 'image/png' entry
\* among its outputs; a first output without 'data' is no fault.
C11_ImagesChecked ==
  result.op = "get_images" =>
    (result.raised = "" /\ result.value = ImagesOf(ipynb))

IsMarkerLine(line) == Len(line) >= 4 /\ SubSeq(line, 1, 4) = <<"#", " ", "%", "%">>

\* a line without its line ending
Stripped(line) ==
  IF line # <<>> /\ line[Len(line)] = "\n" THEN SubSeq(line, 1, Len(line) - 1) ELSE line

\* what a content line leaves in a cell: the line in a code cell, the line
\* without its "# " in a markdown cell
ContentOf(line) == {Stripped(line), SubSeq(Stripped(line), 3, Len(Stripped(line)))}

\* the last line is content of a block that is still open
EndsInOpenBlock(lines) ==
  /\ Len(lines) >= 2
  /\ lines[Len(lines)] # <<"\n">>
  /\ ~IsMarkerLine(lines[Len(lines)])
  /\ lines[Len(lines) - 1] # <<"\n">>

\* C12: load reads every line of its input, and a last line that is content
\* of a block still open is the last source line of the last cell.
C12_ReadsAllInput ==
  (result.op = "load" /\ result.arg[1] = "file") =>
    LET lines == readlines(result.arg[2])
        cells == result.value.cells
    IN /\ load_counter(lines, 0) = Len(lines)
       /\ EndsInOpenBlock(lines) =>
            /\ cells # <<>>
            /\ cells[Len(cells)].source # <<>>
            /\ cells[Len(cells)].source[Len(cells[Len(cells)].source)]
                 \in ContentOf(lines[Len(lines)])

\* the number of lines that start with '# %%'
RECURSIVE MarkerCount(_)
MarkerCount(lines) ==
  IF lines = <<>> THEN 0
  ELSE (IF IsMarkerLine(Head(lines)) THEN 1 ELSE 0) + MarkerCount(Tail(lines))

\* C13: in the text of to_percent, of to_py_percent and of to_starboard
\* (html=False) for a non-empty notebook, the lines starting with '# %%' are
\* as many as the cells of the notebook.
C13_MarkerPerCell ==
  (/\ result.op \in {"to_percent", "to_py_percent", "to_starboard"}
   /\ result.arg # <<TRUE>>
   /\ result.raised = ""
   /\ ipynb.cells # <<>>) =>
    MarkerCount(readlines(result.value)) = Len(ipynb.cells)

\* what the interactive format asks of one cell: its marker line, then its
\* source lines as they are
StarboardBlock(cell) ==
  (IF cell.cell_type = "markdown" THEN MD_MARKER ELSE PYTHON_MARKER)
  \o ConcatTo(cell.source, Len(cell.source))

\* the blocks in order, one line ending after each but the last
StarboardText(cells) ==
  ConcatTo([i \in 1..Len(cells) |->
              StarboardBlock(cells[i]) \o (IF i < Len(cells) THEN <<"\n">> ELSE <<>>)],
           Len(cells))

\* the source of the cell is empty or ends with a line ending
EndsLine(cell) ==
  cell.source = <<>> \/ IsSuffix(<<"\n">>, cell.source[Len(cell.source)])

IsStarboardText == result.op = "to_starboard" /\ result.arg = <<FALSE>>

\* C14, as stated: in the text of to_starboard (html=False) for a notebook of
\* at least two cells, every marker line after the first is preceded by
\* exactly one empty line, and no separator follows the last cell.
C14_BlankLineBetween ==
  (IsStarboardText /\ Len(ipynb.cells) >= 2) =>
    LET lines == readlines(result.value) IN
    /\ result.raised = ""
    /\ \A p \in 2..Len(lines) :
         IsMarkerLine(lines[p]) =>
           /\ lines[p - 1] = <<"\n">>
           /\ p > 2 => lines[p - 2] # <<"\n">>
    /\ result.value = StarboardText(ipynb.cells)

\* where the block of cell i starts in the text
BlockStart(cells, i) == Len(StarboardText(SubSeq(cells, 1, i - 1))) + 2

\* C14, amended: the text of to_starboard (html=False) for a notebook of at
\* least one cell is the blocks of its cells in order (marker line, source
\* lines), exactly one line ending between consecutive blocks and none after
\* the last; the line before the marker of the next cell is empty exactly when
\* the cell before it has an empty source or a source that ends with a line
\* ending, and otherwise that marker follows the last source line directly.
C14_OneNewlineBetween ==
  (IsStarboardText /\ Len(ipynb.cells) >= 1) =>
    LET cells == ipynb.cells IN
    /\ result.raised = ""
    /\ result.value = StarboardText(cells)
    /\ \A i \in 2..Len(cells) :
         LET start == BlockStart(cells, i) IN
         /\ result.value[start - 1] = "\n"
         /\ result.value[start - 2] = "\n" <=> EndsLine(cells[i - 1])
         /\ SubSeq(result.value, start, start + 3) = <<"#", " ", "%", "%">>

C14_Witness ==
  /\ IsStarboardText
  /\ result.raised = ""
  /\ Len(ipynb.cells) >= 2
  /\ ~EndsLine(ipynb.cells[1])
  /\ EndsLine(ipynb.cells[2])

\* C15: markdownize leaves the notebook it was given as it was (every cell
\* keeps its class and execution count) and returns markdown cells with the
\* ids and sources of the notebook's cells and no execution count.
C15_MarkdownizeFrame ==
  result.op = "markdownize" =>
    LET before == result.arg.cells
        after == result.value.cells
    IN /\ Len(nb[1].cells) = Len(before)
       /\ \A i \in 1..Len(before) :
            /\ nb[1].cells[i].class = before[i].class
            /\ nb[1].cells[i].execution_count = before[i].execution_count
       /\ Len(after) = Len(before)
       /\ \A i \in 1..Len(after) :
            after[i] = MarkdownCell(before[i].id, before[i].source)

IsLoadedFile == result.op = "load" /\ result.arg[1] = "file"

\* what a marker line would leave in a cell if it were taken as content
MarkerContent == UNION {ContentOf(marker) : marker \in {MD_MARKER, CODE_MARKER}}

\* C16: no source line of a cell that load returns is, or derives from, a
\* '# %%' marker line of the input, wherever the marker stands.
C16_MarkerNeverContent ==
  IsLoadedFile =>
    \A i \in 1..Len(result.value.cells) :
      \A j \in 1..Len(result.value.cells[i].source) :
        result.value.cells[i].source[j] \notin MarkerContent

\* the lines of a block from position p up to a blank line or the end
RECURSIVE BlockEnd(_, _)
BlockEnd(lines, p) ==
  IF p > Len(lines) \/ lines[p] = <<"\n">> THEN p ELSE BlockEnd(lines, p + 1)

\* the cells of the state machine: scanning skips blank lines, a marker line
\* opens a block, a blank line or the end of the input closes it
RECURSIVE ScanCells(_, _, _)
ScanCells(lines, p, id) ==
  IF p > Len(lines) THEN <<>>
  ELSE IF lines[p] = <<"\n">> THEN ScanCells(lines, p + 1, id)
  ELSE LET e == BlockEnd(lines, p + 1)
           md == contains(lines[p], MARKDOWN)
           source == [k \in 1..(e - p - 1) |->
                        IF md THEN SubSeq(Stripped(lines[p + k]), 3, Len(Stripped(lines[p + k])))
                        ELSE Stripped(lines[p + k])]
       IN <<IF md THEN MarkdownCell(id, source) ELSE CodeCell(id, source, <<1>>)>>
          \o ScanCells(lines, e, id + 1)

\* every block starts with a marker line at the start or after a blank line,
\* no marker stands inside a block, and the text ends with a blank line
WellFormedFile(lines) ==
  /\ lines # <<>>
  /\ lines[Len(lines)] = <<"\n">>
  /\ \A p \in 1..Len(lines) :
       IF p = 1 \/ lines[p - 1] = <<"\n">>
       THEN lines[p] = <<"\n">> \/ IsMarkerLine(lines[p])
       ELSE ~IsMarkerLine(lines[p])

\* C17: a blank line read while no cell is open opens no block and emits no
\* cell: for a text of blocks separated by one or more blank lines, load
\* returns the cells of the blocks, no extra cell and no marker taken as
\* content.
C17_BlankLineOpensNothing ==
  (IsLoadedFile /\ WellFormedFile(readlines(result.arg[2]))) =>
    result.value.cells = ScanCells(readlines(result.arg[2]), 1, 0)

\* C18: for a document with at least one cell, all markdown or code,
\* to_percent returns the text that to_py_percent returns for the Notebook of
\* the same document, up to and including its end.
C18_PercentEmittersAgree ==
  (result.op = "to_percent" /\ Len(ipynb.cells) >= 1) =>
    /\ result.raised = ""
    /\ to_py_percent(Notebook(ipynb)).raised = ""
    /\ result.value = to_py_percent(Notebook(ipynb)).value

====
